---- MODULE Spec2Model ----
(***************************************************************************)
(* rustty: the Option and Result containers of src/src/option.ts as a      *)
(* heap of objects with identity.  A container is an object with a boolean *)
(* tag (_some / _ok) and a payload (_value); methods are operators from a  *)
(* heap and a receiver address to a new heap and an outcome (a returned    *)
(* value or a thrown one).  Object identity is kept because several        *)
(* methods return `this` or an argument rather than a new object.          *)
(***************************************************************************)
EXTENDS Integers, FiniteSets, Sequences, TLC

\* ---------------------------------------------------------------- bounds
MaxObj == 7      \* heap cells; with 7 no call ever lacks room (HasRoom holds throughout)
MaxVal == 1      \* plain payloads are the numbers 0..MaxVal

Addr == 1..MaxObj

\* ---------------------------------------------------------------- values
\* A JavaScript value: a number, undefined, a reference to a container, an
\* Error object carrying a message, or the TypeError the engine
\* raises when a method is looked up on a value that has none.
Num(n) == [t |-> "num", v |-> n]
Undef == [t |-> "undefined", v |-> 0]
Ref(a) == [t |-> "ref", v |-> a]
ErrorObj(m) == [t |-> "Error", v |-> m]
TypeError == [t |-> "TypeError", v |-> 0]

Plain == {Num(n) : n \in 0..MaxVal}
\* Error messages: the fixed text of Option.unwrap's error, and two texts a
\* caller passes to expect().
\* Texts are numbered: 0 is "Called `Option.unwrap()` on a `None` value".
UnwrapNoneMsg == 0
Msg == {1, 2}

IsRef(val) == val.t = "ref"

\* ---------------------------------------------------------------- heap
\* flag is _some for an Option and _ok for a Result.
Free == [kind |-> "Free", flag |-> FALSE, value |-> Undef]
Obj(kind, flag, value) == [kind |-> kind, flag |-> flag, value |-> value]

EmptyHeap == [a \in Addr |-> Free]
FreeCells(h) == {a \in Addr : h[a].kind = "Free"}
MinOf(S) == CHOOSE a \in S : \A b \in S : a <= b

\* `new Option(some, value)` / `new Result(ok, value)`: the lowest free cell.
\* The result is the new heap and the address of the new object.
New(h, kind, flag, value) ==
  LET a == MinOf(FreeCells(h))
  IN  [h |-> [h EXCEPT ![a] = Obj(kind, flag, value)], a |-> a]

IsOption(h, val) == IsRef(val) /\ h[val.v].kind = "Option"
IsResult(h, val) == IsRef(val) /\ h[val.v].kind = "Result"

\* An outcome of a call: the heap after it, and what it returned or threw.
Return(h, val) == [h |-> h, k |-> "return", v |-> val]
Throw(h, val) == [h |-> h, k |-> "throw", v |-> val]

\* The four named constructors.
Some(h, val) == New(h, "Option", TRUE, val)
None(h) == New(h, "Option", FALSE, Undef)
Ok(h, val) == New(h, "Result", TRUE, val)
Err(h, val) == New(h, "Result", FALSE, val)

\* ---------------------------------------------------------------- callbacks
\* The caller's callbacks are drawn from small sets of total functions.
\* Mappers (value) => value, for map / mapErr:
Fn == {"inc", "zero"}
Apply(f, val) ==
  IF f = "inc" THEN Num((val.v + 1) % (MaxVal + 1)) ELSE Num(0)
\* Predicates (value) => boolean, for filter:
Pred == {"isZero", "always"}
Test(p, val) == IF p = "isZero" THEN val = Num(0) ELSE TRUE
\* Callbacks (value) => Result, for andThen / orElse:
ResFn == {"okInc", "errZero"}
ApplyRes(h, f, val) ==
  IF f = "okInc" THEN Ok(h, Apply("inc", val)) ELSE Err(h, Num(0))

\* ---------------------------------------------------------------- Option
Option_into(h, this) == Return(h, Ref(this))

Option_cloned(h, this) == Return(h, Ref(this))

Option_isSome(h, this) == h[this].flag

Option_isNone(h, this) == ~h[this].flag

\* Variant: and() hands back a copy of its argument instead of the argument.
Option_and_copy(h, this, optb) ==
  IF h[this].flag
  THEN LET c == New(h, "Option", h[optb].flag, h[optb].value) IN Return(c.h, Ref(c.a))
  ELSE Option_into(h, this)

Option_and(h, this, optb) ==
  IF h[this].flag THEN Return(h, Ref(optb)) ELSE Option_into(h, this)

Option_or(h, this, fallback) ==
  IF h[this].flag THEN Return(h, Ref(this)) ELSE Return(h, Ref(fallback))

\* Variant: xor() keeps the receiver when both are Some.
Option_xor_keepsThis(h, this, optb) ==
  IF h[this].flag THEN Option_into(h, this)
  ELSE IF h[optb].flag THEN Option_into(h, optb)
  ELSE LET n == None(h) IN Return(n.h, Ref(n.a))

Option_xor(h, this, optb) ==
  IF ~h[optb].flag /\ h[this].flag THEN Option_into(h, this)
  ELSE IF h[optb].flag /\ ~h[this].flag THEN Option_into(h, optb)
  ELSE LET n == None(h) IN Return(n.h, Ref(n.a))

Option_filter(h, this, predicate) ==
  IF h[this].flag /\ Test(predicate, h[this].value)
  THEN Return(h, Ref(this))
  ELSE LET n == None(h) IN Return(n.h, Ref(n.a))

Option_map(h, this, callback) ==
  LET h1 == IF h[this].flag
            THEN [h EXCEPT ![this].value = Apply(callback, h[this].value)]
            ELSE h
  IN  Option_into(h1, this)

Option_replace(h, this, value) ==
  LET self == Option_cloned(h, this)
      h1 == [self.h EXCEPT ![this].value = value]
  IN  Return(h1, self.v)

Option_take(h, this) ==
  LET self == Option_cloned(h, this)
      h1 == [self.h EXCEPT ![this].value = Undef, ![this].flag = FALSE]
  IN  Return(h1, self.v)

Option_unwrap(h, this) ==
  IF h[this].flag THEN Return(h, h[this].value)
  ELSE Throw(h, ErrorObj(UnwrapNoneMsg))

\* Variant: expect() drops the caller's message for unwrap's fixed one.
Option_expect_generic(h, this, message) ==
  IF h[this].flag THEN Return(h, h[this].value)
  ELSE Throw(h, ErrorObj(UnwrapNoneMsg))

Option_expect(h, this, message) ==
  IF h[this].flag THEN Return(h, h[this].value)
  ELSE Throw(h, ErrorObj(message))

Option_unwrapOr(h, this, fallback) ==
  IF h[this].flag THEN Return(h, h[this].value) ELSE Return(h, fallback)

\* fallback is the value the caller's thunk returns when it is called.
Option_unwrapOrElse(h, this, fallback) ==
  IF h[this].flag THEN Return(h, h[this].value) ELSE Return(h, fallback)

\* Variant: okOr() on a None wraps the receiver's payload, not the argument.
Option_okOr_payload(h, this, err) ==
  LET r == IF h[this].flag THEN Ok(h, h[this].value) ELSE Err(h, h[this].value)
  IN  Return(r.h, Ref(r.a))

Option_okOr(h, this, err) ==
  LET r == IF h[this].flag THEN Ok(h, h[this].value) ELSE Err(h, err)
  IN  Return(r.h, Ref(r.a))

\* err is the value the caller's thunk returns when it is called.
Option_okOrElse(h, this, err) ==
  LET r == IF h[this].flag THEN Ok(h, h[this].value) ELSE Err(h, err)
  IN  Return(r.h, Ref(r.a))

Option_flatten(h, this) ==
  IF h[this].flag THEN Return(h, h[this].value)
  ELSE LET n == None(h) IN Return(n.h, Ref(n.a))

\* ---------------------------------------------------------------- Result
Result_into(h, this) == Return(h, Ref(this))

Result_isOk(h, this) == h[this].flag

Result_isErr(h, this) == ~h[this].flag

\* Variant: unwrap() on an Err throws a new Error instead of the payload.
Result_unwrap_wrapped(h, this) ==
  IF h[this].flag THEN Return(h, h[this].value)
  ELSE Throw(h, ErrorObj(UnwrapNoneMsg))

Result_unwrap(h, this) ==
  IF h[this].flag THEN Return(h, h[this].value) ELSE Throw(h, h[this].value)

Result_unwrapErr(h, this) ==
  IF ~h[this].flag THEN Return(h, h[this].value) ELSE Throw(h, h[this].value)

Result_unwrapOr(h, this, fallback) ==
  IF h[this].flag THEN Return(h, h[this].value) ELSE Return(h, fallback)

Result_and(h, this, res) ==
  IF h[this].flag THEN Return(h, Ref(res)) ELSE Result_into(h, this)

Result_andThen(h, this, callback) ==
  IF h[this].flag
  THEN LET r == ApplyRes(h, callback, h[this].value) IN Return(r.h, Ref(r.a))
  ELSE Result_into(h, this)

\* Variant: or() hands back the fallback whatever the receiver is.
Result_or_always(h, this, fallback) == Result_into(h, fallback)

Result_or(h, this, fallback) ==
  IF h[this].flag THEN Result_into(h, this) ELSE Result_into(h, fallback)

Result_orElse(h, this, fallback) ==
  IF h[this].flag THEN Result_into(h, this)
  ELSE LET r == ApplyRes(h, fallback, h[this].value) IN Result_into(r.h, r.a)

Result_map(h, this, callback) ==
  LET h1 == IF h[this].flag
            THEN [h EXCEPT ![this].value = Apply(callback, h[this].value)]
            ELSE h
  IN  Result_into(h1, this)

\* Variant: mapErr() marks the mapped Result as Ok.
Result_mapErr_setsOk(h, this, callback) ==
  LET h1 == IF ~h[this].flag
            THEN [h EXCEPT ![this].value = Apply(callback, h[this].value),
                           ![this].flag = TRUE]
            ELSE h
  IN  Result_into(h1, this)

Result_mapErr(h, this, callback) ==
  LET h1 == IF ~h[this].flag
            THEN [h EXCEPT ![this].value = Apply(callback, h[this].value)]
            ELSE h
  IN  Result_into(h1, this)

\* The callback only observes the value.
Result_inspect(h, this) == Return(h, Ref(this))

Result_ok(h, this) ==
  IF h[this].flag
  THEN LET s == Some(h, h[this].value) IN Return(s.h, Ref(s.a))
  ELSE LET n == None(h) IN Return(n.h, Ref(n.a))

Result_err(h, this) ==
  IF h[this].flag
  THEN LET n == None(h) IN Return(n.h, Ref(n.a))
  ELSE LET s == Some(h, h[this].value) IN Return(s.h, Ref(s.a))

Result_flatten(h, this) ==
  IF h[this].flag THEN Return(h, h[this].value) ELSE Result_into(h, this)

Result_intoErr(h, this) == Return(h, h[this].value)

Result_intoOk(h, this) == Return(h, h[this].value)

\* isRusttyClass(value): value instanceof Result || value instanceof Option
isRusttyClass(h, val) == IsResult(h, val) \/ IsOption(h, val)

\* structuredClone of a number or undefined is the value itself.
structuredClone(val) == val

RECURSIVE Result_cloned(_, _)
Result_cloned(h, this) ==
  IF isRusttyClass(h, h[this].value)
  THEN IF IsOption(h, h[this].value)
       THEN Option_cloned(h, h[this].value.v)
       ELSE Result_cloned(h, h[this].value.v)
  ELSE LET r == New(h, "Result", h[this].flag, structuredClone(h[this].value))
       IN  Return(r.h, Ref(r.a))

\* this.unwrap().isNone(): unwrap throws the payload of an Err; isNone is a
\* method of Option only, so any other payload raises a TypeError.
Result_transpose(h, this) ==
  LET u == Result_unwrap(h, this)
  IN  IF u.k = "throw" THEN u
      ELSE IF ~IsOption(h, u.v) THEN Throw(h, TypeError)
      ELSE IF Option_isNone(h, u.v.v)
           THEN LET n == None(h) IN Return(n.h, Ref(n.a))
           ELSE LET s == Some(h, Result_into(h, this).v) IN Return(s.h, Ref(s.a))

\* Variant: transpose() wraps the inner Result instead of its payload.
Option_transpose_nested(h, this) ==
  IF ~h[this].flag
  THEN LET n == None(h)
           o == Ok(n.h, Ref(n.a))
       IN  Return(o.h, Ref(o.a))
  ELSE IF ~IsResult(h, h[this].value) THEN Throw(h, TypeError)
  ELSE IF h[h[this].value.v].flag
       THEN LET s == Some(h, h[this].value)
                o == Ok(s.h, Ref(s.a))
            IN  Return(o.h, Ref(o.a))
       ELSE LET e == Err(h, h[h[this].value.v].value)
            IN  Return(e.h, Ref(e.a))

\* this._value.isOk(): a method of Result only.
Option_transpose(h, this) ==
  IF ~h[this].flag
  THEN LET n == None(h)
           o == Ok(n.h, Ref(n.a))
       IN  Return(o.h, Ref(o.a))
  ELSE IF ~IsResult(h, h[this].value) THEN Throw(h, TypeError)
  ELSE IF Result_isOk(h, h[this].value.v)
       THEN LET u == Result_unwrap(h, h[this].value.v)
                s == Some(h, u.v)
                o == Ok(s.h, Ref(s.a))
            IN  Return(o.h, Ref(o.a))
       ELSE LET u == Result_unwrapErr(h, h[this].value.v)
                e == Err(h, u.v)
            IN  Return(e.h, Ref(e.a))

\* ---------------------------------------------------------------- arrays
\* Array.prototype utilities.  An array holds numbers and undefined, or
\* one-letter strings (Str(n) is the n-th letter); a call's outcome records
\* the receiver as the call leaves it (this), the array it returns (out) or
\* the array of arrays it returns (parts), the Option it returns (opt, around
\* val or out) or the scalar it returns (val).
MaxLen == 4
Str(n) == [t |-> "string", v |-> n]
Bool(b) == [t |-> "boolean", v |-> IF b THEN 1 ELSE 0]
\* BigInt(value) of the engine, on an integral number.
BigInt(val) == [t |-> "bigint", v |-> val.v]
NoVal == [t |-> "", v |-> 0]
Elem == Plain \cup {Undef}
StrElem == {Str(n) : n \in 0 .. MaxVal}
Arrays == UNION {[1 .. n -> Elem] \cup [1 .. n -> StrElem] : n \in 0 .. MaxLen}

Min(a, b) == IF a < b THEN a ELSE b
Max(a, b) == IF a < b THEN b ELSE a

ArrReturn(this, out) ==
  [k |-> "return", msg |-> "", this |-> this, out |-> out, parts |-> <<>>,
   opt |-> "", val |-> NoVal]
ArrReturnParts(this, parts) ==
  [k |-> "return", msg |-> "", this |-> this, out |-> <<>>, parts |-> parts,
   opt |-> "", val |-> NoVal]
ArrThrow(this, msg) ==
  [k |-> "throw", msg |-> msg, this |-> this, out |-> <<>>, parts |-> <<>>,
   opt |-> "", val |-> NoVal]
\* A call that returns nothing (void), a scalar, None(), Some(val), Some(out).
ArrReturnVoid(this) == ArrReturn(this, <<>>)
ArrReturnVal(this, val) == [ArrReturn(this, <<>>) EXCEPT !.val = val]
ArrReturnNone(this) == [ArrReturn(this, <<>>) EXCEPT !.opt = "None"]
ArrReturnSome(this, val) == [ArrReturn(this, <<>>) EXCEPT !.opt = "Some", !.val = val]
ArrReturnSomeArr(this, out) == [ArrReturn(this, out) EXCEPT !.opt = "Some"]

\* this[i] of the engine, i counted from 0: undefined outside the array.
At(a, i) == IF 0 <= i /\ i < Len(a) THEN a[i + 1] ELSE Undef

\* Array.prototype.slice(start, end) of the engine: a negative index counts
\* from the end, both are clamped to [0, length], the receiver is not touched.
slice(a, start, end) ==
  LET k == IF start < 0 THEN Max(Len(a) + start, 0) ELSE Min(start, Len(a))
      f == IF end < 0 THEN Max(Len(a) + end, 0) ELSE Min(end, Len(a))
  IN  SubSeq(a, k + 1, f)

\* Array.prototype.reverse() and flat() of the engine, on an array of arrays.
reverse(s) == [i \in 1 .. Len(s) |-> s[Len(s) + 1 - i]]
RECURSIVE flat(_)
flat(ss) == IF ss = <<>> THEN <<>> ELSE Head(ss) \o flat(Tail(ss))

\* windows(size): throws unless 0 < size <= length.
windows(a, size) ==
  IF size <= 0 \/ size > Len(a) THEN ArrThrow(a, "size is out of bounds")
  ELSE LET m == [i \in 1 .. Len(a) |-> slice(a, i - 1, i - 1 + size)]
       IN  ArrReturnParts(a, slice(m, 0, Len(a) - size + 1))

\* A splitAt that also rejects mid = length.
splitAt_strict(a, mid) ==
  IF mid < 0 THEN ArrThrow(a, "mid cannot be negative")
  ELSE IF mid >= Len(a)
    THEN ArrThrow(a, "mid cannot be greater than the length of the array")
  ELSE ArrReturnParts(a, <<slice(a, 0, mid), slice(a, mid, Len(a))>>)
\* splitAt(mid): [this.slice(0, mid), this.slice(mid)].
splitAt(a, mid) ==
  IF mid < 0 THEN ArrThrow(a, "mid cannot be negative")
  ELSE IF mid > Len(a)
    THEN ArrThrow(a, "mid cannot be greater than the length of the array")
  ELSE ArrReturnParts(a, <<slice(a, 0, mid), slice(a, mid, Len(a))>>)

\* rotateLeft(mid): this.splitAt(mid).reverse().flat().
rotateLeft(a, mid) ==
  LET s == splitAt(a, mid)
  IN  IF s.k = "throw" THEN s ELSE ArrReturn(s.this, flat(reverse(s.parts)))

\* A rotateRight that splits at mid, as rotateLeft does.
rotateRight_atMid(a, mid) ==
  LET s == splitAt(a, mid)
  IN  IF s.k = "throw" THEN s ELSE ArrReturn(s.this, flat(reverse(s.parts)))
\* rotateRight(mid): this.splitAt(this.length - mid).reverse().flat().
rotateRight(a, mid) ==
  LET s == splitAt(a, Len(a) - mid)
  IN  IF s.k = "throw" THEN s ELSE ArrReturn(s.this, flat(reverse(s.parts)))

\* Array.prototype.filter of the engine: keep[i] is what the callback
\* returned for element i; a new array, the receiver is not touched.
RECURSIVE filter(_, _)
filter(a, keep) ==
  IF a = <<>> THEN <<>>
  ELSE (IF Head(keep) THEN <<Head(a)>> ELSE <<>>) \o filter(Tail(a), Tail(keep))

\* retain(predicate): this.splice(0, this.length, ...this.filter(predicate));
\* keep[i] is predicate(this[i], i), or predicate[i] for a boolean list.
retain(a, keep) == ArrReturnVoid(filter(a, keep))

\* Equality callbacks (a, b) => boolean, for dedupBy and groupBy:
\* a === b, typeof a === typeof b, and a < b.
EqFn == {"strictEq", "sameType", "less"}
CallEq(fn, a, b) ==
  IF fn = "strictEq" THEN a = b
  ELSE IF fn = "sameType" THEN a.t = b.t
  ELSE a.t = b.t /\ a.t \in {"num", "string"} /\ a.v < b.v

\* dedupBy(fn): this.retain((v, idx) => !fn(v, this[idx + 1], idx, this)).
dedupBy(a, fn) ==
  retain(a, [i \in 1 .. Len(a) |-> ~CallEq(fn, a[i], At(a, i))])

\* dedup(): this.dedupBy((a, b) => a === b).
dedup(a) == dedupBy(a, "strictEq")

\* Key callbacks (item) => key, for dedupByKey: item => item, item => 0.
KeyFn == {"item", "zero"}
Key(fn, item) == IF fn = "item" THEN item ELSE Num(0)

\* dedupByKey(fn):
\* this.retain(this.map(fn).map((v, idx, self) => v !== self[idx + 1])).
dedupByKey(a, fn) ==
  LET keys == [i \in 1 .. Len(a) |-> Key(fn, a[i])]
  IN  retain(a, [i \in 1 .. Len(a) |-> keys[i] # At(keys, i)])

\* spliceFilter(predicate): the elements the predicate accepts stay in the
\* receiver, the others are pushed to rejected, which is returned.
spliceFilter(a, p) ==
  LET keep == [i \in 1 .. Len(a) |-> Test(p, a[i])]
      rejected == filter(a, [i \in 1 .. Len(a) |-> ~keep[i]])
  IN  ArrReturn(filter(a, keep), rejected)

\* startsWith(...other): this.slice(0, other.length).every((v, i) => v === other[i]).
startsWith(a, other) ==
  LET s == slice(a, 0, Len(other))
  IN  ArrReturnVal(a, Bool(\A i \in 1 .. Len(s) : s[i] = At(other, i - 1)))

\* endsWith(...other): this.slice(-other.length).every((v, i) => v === other[i]).
endsWith(a, other) ==
  LET s == slice(a, 0 - Len(other), Len(a))
  IN  ArrReturnVal(a, Bool(\A i \in 1 .. Len(s) : s[i] = At(other, i - 1)))

\* stripPrefix(...prefix):
\* this.startsWith(...prefix) ? Some(this.slice(prefix.length)) : None().
stripPrefix(a, prefix) ==
  IF startsWith(a, prefix).val = Bool(TRUE)
    THEN ArrReturnSomeArr(a, slice(a, Len(prefix), Len(a)))
  ELSE ArrReturnNone(a)

\* stripSuffix(...suffix):
\* this.endsWith(...suffix) ? Some(this.slice(0, -suffix.length)) : None().
stripSuffix(a, suffix) ==
  IF endsWith(a, suffix).val = Bool(TRUE)
    THEN ArrReturnSomeArr(a, slice(a, 0, 0 - Len(suffix)))
  ELSE ArrReturnNone(a)

\* A first() that wraps this[0] without looking at the length.
first_unchecked(a) == ArrReturnSome(a, At(a, 0))
\* first(): this.length === 0 ? None() : Some(this[0]).
first(a) == IF Len(a) = 0 THEN ArrReturnNone(a) ELSE ArrReturnSome(a, At(a, 0))

\* last(): this.length === 0 ? None() : Some(this.at(-1)).
last_(a) == IF Len(a) = 0 THEN ArrReturnNone(a) ELSE ArrReturnSome(a, At(a, Len(a) - 1))

\* Array.prototype.sort of the engine, in place: undefined elements go to
\* the end without a call of the comparator; the others are ordered by the
\* comparator (b - a: "desc", a - b: "asc") or, with none, as strings.
Before(cmp, p, q) == IF cmp = "desc" THEN p.v > q.v ELSE p.v < q.v
RECURSIVE insert(_, _, _)
insert(s, e, cmp) ==
  IF s = <<>> THEN <<e>>
  ELSE IF Before(cmp, e, Head(s)) THEN <<e>> \o s
  ELSE <<Head(s)>> \o insert(Tail(s), e, cmp)
RECURSIVE sortDefined(_, _)
sortDefined(a, cmp) ==
  IF a = <<>> THEN <<>> ELSE insert(sortDefined(Tail(a), cmp), Head(a), cmp)
sort(a, cmp) ==
  sortDefined(filter(a, [i \in 1 .. Len(a) |-> a[i] # Undef]), cmp)
    \o filter(a, [i \in 1 .. Len(a) |-> a[i] = Undef])

\* max(): None() on the empty array, else the receiver is sorted and the
\* last (strings) or first (numbers, sorted by b - a) element is wrapped.
max(a) ==
  IF Len(a) = 0 THEN ArrReturnNone(a)
  ELSE IF a[1].t = "string"
    THEN LET s == sort(a, "") IN ArrReturnSome(s, last_(s).val)
  ELSE LET s == sort(a, "desc") IN ArrReturnSome(s, first(s).val)

\* min(): as max(), with the first element of the sorted receiver.
min(a) ==
  IF Len(a) = 0 THEN ArrReturnNone(a)
  ELSE IF a[1].t = "string"
    THEN LET s == sort(a, "") IN ArrReturnSome(s, first(s).val)
  ELSE LET s == sort(a, "asc") IN ArrReturnSome(s, first(s).val)

\* Array.prototype.reduce of the engine with (a, b) => a + b and
\* (a, b) => a * b, on an array of numbers.
RECURSIVE reduceAdd(_, _)
reduceAdd(a, acc) == IF a = <<>> THEN acc ELSE reduceAdd(Tail(a), acc + Head(a).v)
RECURSIVE reduceMul(_, _)
reduceMul(a, acc) == IF a = <<>> THEN acc ELSE reduceMul(Tail(a), acc * Head(a).v)

\* product(forceBigInt): the fold starts from 1 (typeof this[0] is never
\* "bigint" here); forceBigInt ? BigInt(result) : result.
product(a, forceBigInt) ==
  LET result == Num(reduceMul(a, 1))
  IN  ArrReturnVal(a, IF forceBigInt THEN BigInt(result) ELSE result)

\* sum(forceBigInt): the fold starts from 0.
sum(a, forceBigInt) ==
  LET result == Num(reduceAdd(a, 0))
  IN  ArrReturnVal(a, IF forceBigInt THEN BigInt(result) ELSE result)

\* The loop of groupBy from index i on: this[i] joins the last group when
\* fn(this[i - 1], this[i]) holds and opens a new group otherwise.
RECURSIVE groupLoop(_, _, _, _)
groupLoop(a, fn, i, groups) ==
  IF i >= Len(a) THEN groups
  ELSE IF CallEq(fn, At(a, i - 1), At(a, i))
    THEN groupLoop(a, fn, i + 1,
                   [groups EXCEPT ![Len(groups)] = Append(@, At(a, i))])
  ELSE groupLoop(a, fn, i + 1, Append(groups, <<At(a, i)>>))

\* A groupBy that opens a group for every element.
groupBy_single(a, fn) == ArrReturnParts(a, [i \in 1 .. Len(a) |-> <<a[i]>>])
\* groupBy(fn): [] on the empty array, else the loop from [[this[0]]].
groupBy(a, fn) ==
  IF Len(a) = 0 THEN ArrReturnParts(a, <<>>)
  ELSE ArrReturnParts(a, groupLoop(a, fn, 1, <<<<At(a, 0)>>>>))

\* The piece a chunks iteration pushes: this.slice(i, i + size).
chunksPiece(a, i, size) == slice(a, i, i + size)

\* An rchunks piece without the clamp of its start at 0.
rchunksPiece_unclamped(a, i, size) == slice(a, i - size, i)
\* The piece an rchunks iteration pushes:
\* this.slice(Math.max(i - size, 0), i).
rchunksPiece(a, i, size) == slice(a, Max(i - size, 0), i)

\* ---------------------------------------------------------------- state
\* The caller's program: x and y are containers it constructed, z is bound
\* to the container the latest combinator call on x returned
\* (`const z = x.and(y)`), zsrc remembers that call.  last is the latest
\* call and its outcome, pre the heap just before it.  arr is an array of the
\* caller and acall the latest Array utility call on it; loop is the for
\* loop of a chunks/rchunks call in progress.  cell is the reference optional
\* cell the Option x is compared with: its state now and before the latest
\* call.
VARIABLES heap, x, y, z, zsrc, last, pre, arr, acall, loop, cell

vars == <<heap, x, y, z, zsrc, last, pre, arr, acall, loop, cell>>

\* Containers the caller can construct: one or two constructor calls around
\* a plain value, e.g. Some(1), None(), Ok(Some(0)), Some(Err(1)), Err(None()).
L(kind, flag) == [kind |-> kind, flag |-> flag]
Populated == {L("Option", TRUE), L("Result", TRUE), L("Result", FALSE)}
Leaves ==
  {[layers |-> <<L("Option", FALSE)>>, val |-> Undef]}
    \cup {[layers |-> <<l>>, val |-> p] : l \in Populated, p \in Plain}
Nested == {[layers |-> <<l>> \o s.layers, val |-> s.val] : l \in Populated, s \in Leaves}
Shapes == Leaves \cup Nested
\* The second container is an argument only: None(), Some(v), Ok(v), Err(v).
ArgShapes == {s \in Leaves : s.val \in {Undef, Num(MaxVal)}}

\* Evaluate the constructor calls of a shape, innermost first.
RECURSIVE Build(_, _, _)
Build(h, layers, val) ==
  IF layers = <<>> THEN [h |-> h, v |-> val]
  ELSE LET inner == Build(h, Tail(layers), val)
           o == New(inner.h, Head(layers).kind, Head(layers).flag, inner.v)
       IN  [h |-> o.h, v |-> Ref(o.a)]

\* Objects no variable of the caller reaches are reclaimed by the engine.
RECURSIVE Closure(_, _)
Closure(h, S) ==
  LET T == S \cup {h[a].value.v : a \in {b \in S : IsRef(h[b].value)}}
  IN  IF T = S THEN S ELSE Closure(h, T)
Collect(h, roots) == [a \in Addr |-> IF a \in Closure(h, roots) THEN h[a] ELSE Free]

NoCall ==
  [op |-> "none", reg |-> "x", this |-> 0, arg |-> Undef, cb |-> "", k |-> "return", v |-> Undef]

NoArrCall ==
  [op |-> "none", n |-> 0, cb |-> "", xs |-> <<>>, this |-> <<>>,
   k |-> "return", msg |-> "", out |-> <<>>, parts |-> <<>>,
   opt |-> "", val |-> NoVal]

NoLoop == [pc |-> "idle", op |-> "", size |-> 0, i |-> 0, chunks |-> <<>>]
EmptyCell == [some |-> FALSE, val |-> Undef]
NoCell == [now |-> EmptyCell, before |-> EmptyCell]

\* The caller constructs x and an argument y of the same kind.
InitHeap ==
  \E sx \in Shapes, sy \in ArgShapes :
    /\ sy.layers[1].kind = sx.layers[1].kind
    /\ LET bx == Build(EmptyHeap, sx.layers, sx.val)
           by == Build(bx.h, sy.layers, sy.val)
       IN  /\ heap = by.h
           /\ x = bx.v.v
           /\ y = by.v.v
           /\ pre = by.h
    /\ z = 0
    /\ zsrc = NoCall
    /\ last = NoCall

Init ==
  /\ InitHeap
  /\ arr = <<>>
  /\ acall = NoArrCall
  /\ loop = NoLoop
  /\ cell = NoCell

\* Every call may allocate up to two objects.
HasRoom == Cardinality(FreeCells(heap)) >= 2

\* The calls whose result the caller keeps in z.
Bound == {"and", "or", "xor", "filter", "cloned"}

Reg(reg) == IF reg = "x" THEN x ELSE z

\* A call `reg.op(arg)` with outcome res: the heap is replaced by the heap
\* the method leaves.  The container a combinator on x returns is bound to z,
\* and z goes out of scope at the next call on x.
CallOn(op, reg, arg, cb, res) ==
  LET c == [op |-> op, reg |-> reg, this |-> Reg(reg), arg |-> arg, cb |-> cb,
            k |-> res.k, v |-> res.v]
      bind == reg = "x" /\ op \in Bound /\ res.k = "return" /\ IsRef(res.v)
      z1 == IF reg = "z" THEN z ELSE IF bind THEN res.v.v ELSE 0
      roots == {x, y} \cup ({z1} \ {0}) \cup (IF IsRef(res.v) THEN {res.v.v} ELSE {})
  IN  /\ HasRoom
      /\ last' = c
      /\ pre' = heap
      /\ z' = z1
      /\ zsrc' = IF reg = "z" THEN zsrc ELSE IF bind THEN c ELSE NoCall
      /\ heap' = Collect(res.h, roots)
      /\ UNCHANGED <<x, y, arr, acall, loop>>
Call(op, reg, arg, cb, res) == CallOn(op, reg, arg, cb, res) /\ UNCHANGED cell

IsOpt(a) == a # 0 /\ heap[a].kind = "Option"
IsRes(a) == a # 0 /\ heap[a].kind = "Result"
\* A callback (value) => ... written for plain payloads is only handed one.
PlainPayload(a) == heap[a].value.t = "num"

\* ---------------------------------------------------------------- calls on an Option
OptTake ==
  \E reg \in {"x", "z"} :
    /\ IsOpt(Reg(reg))
    /\ Call("take", reg, Undef, "", Option_take(heap, Reg(reg)))

OptReplace ==
  \E reg \in {"x", "z"}, w \in Plain :
    /\ IsOpt(Reg(reg))
    /\ Call("replace", reg, w, "", Option_replace(heap, Reg(reg), w))

OptMap ==
  \E f \in Fn :
    /\ IsOpt(x)
    /\ heap[x].flag => PlainPayload(x)
    /\ Call("map", "x", Undef, f, Option_map(heap, x, f))

OptAnd == IsOpt(x) /\ Call("and", "x", Ref(y), "", Option_and(heap, x, y))

OptOr == IsOpt(x) /\ Call("or", "x", Ref(y), "", Option_or(heap, x, y))

OptXor == IsOpt(x) /\ Call("xor", "x", Ref(y), "", Option_xor(heap, x, y))

OptFilter ==
  \E p \in Pred :
    /\ IsOpt(x)
    /\ Call("filter", "x", Undef, p, Option_filter(heap, x, p))

OptUnwrap == IsOpt(x) /\ Call("unwrap", "x", Undef, "", Option_unwrap(heap, x))

OptExpect ==
  \E m \in Msg :
    /\ IsOpt(x)
    /\ Call("expect", "x", ErrorObj(m), "", Option_expect(heap, x, m))

OptUnwrapOr ==
  \E d \in Plain :
    /\ IsOpt(x)
    /\ Call("unwrapOr", "x", d, "", Option_unwrapOr(heap, x, d))

OptUnwrapOrElse ==
  \E d \in Plain :
    /\ IsOpt(x)
    /\ Call("unwrapOrElse", "x", d, "", Option_unwrapOrElse(heap, x, d))

OptTranspose == IsOpt(x) /\ Call("transpose", "x", Undef, "", Option_transpose(heap, x))

OptOkOr ==
  \E e \in Plain :
    /\ IsOpt(x)
    /\ Call("okOr", "x", e, "", Option_okOr(heap, x, e))

OptOkOrElse ==
  \E e \in Plain :
    /\ IsOpt(x)
    /\ Call("okOrElse", "x", e, "", Option_okOrElse(heap, x, e))

OptCloned == IsOpt(x) /\ Call("cloned", "x", Undef, "", Option_cloned(heap, x))

OptFlatten == IsOpt(x) /\ Call("flatten", "x", Undef, "", Option_flatten(heap, x))

\* ---------------------------------------------------------------- calls on a Result
ResMap ==
  \E f \in Fn :
    /\ IsRes(x)
    /\ heap[x].flag => PlainPayload(x)
    /\ Call("map", "x", Undef, f, Result_map(heap, x, f))

ResMapErr ==
  \E f \in Fn :
    /\ IsRes(x)
    /\ ~heap[x].flag => PlainPayload(x)
    /\ Call("mapErr", "x", Undef, f, Result_mapErr(heap, x, f))

ResAnd == IsRes(x) /\ Call("and", "x", Ref(y), "", Result_and(heap, x, y))

ResOr == IsRes(x) /\ Call("or", "x", Ref(y), "", Result_or(heap, x, y))

ResAndThen ==
  \E f \in ResFn :
    /\ IsRes(x)
    /\ heap[x].flag => PlainPayload(x)
    /\ Call("andThen", "x", Undef, f, Result_andThen(heap, x, f))

ResOrElse ==
  \E f \in ResFn :
    /\ IsRes(x)
    /\ ~heap[x].flag => PlainPayload(x)
    /\ Call("orElse", "x", Undef, f, Result_orElse(heap, x, f))

ResOk == IsRes(x) /\ Call("ok", "x", Undef, "", Result_ok(heap, x))

ResErr == IsRes(x) /\ Call("err", "x", Undef, "", Result_err(heap, x))

ResUnwrapOr ==
  \E d \in Plain :
    /\ IsRes(x)
    /\ Call("unwrapOr", "x", d, "", Result_unwrapOr(heap, x, d))

ResInspect == IsRes(x) /\ Call("inspect", "x", Undef, "", Result_inspect(heap, x))

ResInto == IsRes(x) /\ Call("into", "x", Undef, "", Result_into(heap, x))

ResCloned == IsRes(x) /\ Call("cloned", "x", Undef, "", Result_cloned(heap, x))

ResFlatten == IsRes(x) /\ Call("flatten", "x", Undef, "", Result_flatten(heap, x))

ResTranspose == IsRes(x) /\ Call("transpose", "x", Undef, "", Result_transpose(heap, x))

ResUnwrap == IsRes(x) /\ Call("unwrap", "x", Undef, "", Result_unwrap(heap, x))

ResUnwrapErr == IsRes(x) /\ Call("unwrapErr", "x", Undef, "", Result_unwrapErr(heap, x))

ResIntoOk == IsRes(x) /\ Call("intoOk", "x", Undef, "", Result_intoOk(heap, x))

ResIntoErr == IsRes(x) /\ Call("intoErr", "x", Undef, "", Result_intoErr(heap, x))

Next ==
  \/ OptTake \/ OptReplace \/ OptMap \/ OptAnd \/ OptOr \/ OptXor \/ OptFilter
  \/ OptUnwrap \/ OptExpect \/ OptUnwrapOr \/ OptUnwrapOrElse \/ OptTranspose
  \/ OptOkOr \/ OptOkOrElse \/ OptCloned \/ OptFlatten
  \/ ResMap \/ ResMapErr \/ ResAnd \/ ResOr \/ ResAndThen \/ ResOrElse
  \/ ResOk \/ ResErr \/ ResUnwrapOr \/ ResInspect \/ ResInto \/ ResCloned
  \/ ResFlatten \/ ResTranspose \/ ResUnwrap \/ ResUnwrapErr
  \/ ResIntoOk \/ ResIntoErr

Spec == Init /\ [][Next]_vars

\* The caller holds one array and calls the Array utilities on it.
InitArr ==
  /\ arr \in Arrays
  /\ acall = NoArrCall
  /\ loop = NoLoop
  /\ cell = NoCell
  /\ heap = EmptyHeap
  /\ x = 0
  /\ y = 0
  /\ z = 0
  /\ zsrc = NoCall
  /\ last = NoCall
  /\ pre = EmptyHeap

\* Integer arguments, from below zero to beyond the longest array.
Sizes == -1 .. MaxLen + 1

\* A call `arr.op(...)` with an integer, a callback or a list of elements as
\* its arguments, and outcome res.
ArrCallWith(op, n, cb, xs, res) ==
  /\ acall' = [op |-> op, n |-> n, cb |-> cb, xs |-> xs, this |-> arr,
               k |-> res.k, msg |-> res.msg, out |-> res.out,
               parts |-> res.parts, opt |-> res.opt, val |-> res.val]
  /\ arr' = res.this
  /\ UNCHANGED <<heap, x, y, z, zsrc, last, pre, loop, cell>>
\* A call `arr.op(n)` with outcome res.
ArrCall(op, n, res) == ArrCallWith(op, n, "", <<>>, res)

ArrWindows == \E n \in Sizes : ArrCall("windows", n, windows(arr, n))
ArrSplitAt == \E n \in Sizes : ArrCall("splitAt", n, splitAt(arr, n))
ArrRotateLeft == \E n \in Sizes : ArrCall("rotateLeft", n, rotateLeft(arr, n))
ArrRotateRight == \E n \in Sizes : ArrCall("rotateRight", n, rotateRight(arr, n))

ArrDedup == ArrCallWith("dedup", 0, "", <<>>, dedup(arr))
ArrDedupBy == \E fn \in EqFn : ArrCallWith("dedupBy", 0, fn, <<>>, dedupBy(arr, fn))
ArrDedupByKey ==
  \E fn \in KeyFn : ArrCallWith("dedupByKey", 0, fn, <<>>, dedupByKey(arr, fn))
ArrSpliceFilter ==
  \E p \in Pred : ArrCallWith("spliceFilter", 0, p, <<>>, spliceFilter(arr, p))


\* Element lists passed to startsWith, endsWith, stripPrefix, stripSuffix.
MaxXs == 2
Xs == UNION {[1 .. n -> {Num(0), Undef}] : n \in 0 .. MaxXs}

ArrStartsWith == \E xs \in Xs : ArrCallWith("startsWith", 0, "", xs, startsWith(arr, xs))
ArrEndsWith == \E xs \in Xs : ArrCallWith("endsWith", 0, "", xs, endsWith(arr, xs))
ArrStripPrefix == \E xs \in Xs : ArrCallWith("stripPrefix", 0, "", xs, stripPrefix(arr, xs))
ArrStripSuffix == \E xs \in Xs : ArrCallWith("stripSuffix", 0, "", xs, stripSuffix(arr, xs))

ArrFirst == ArrCallWith("first", 0, "", <<>>, first(arr))
ArrLast == ArrCallWith("last", 0, "", <<>>, last_(arr))
ArrMax == ArrCallWith("max", 0, "", <<>>, max(arr))
ArrMin == ArrCallWith("min", 0, "", <<>>, min(arr))

\* sum and product are called on arrays of numbers.
IsNumArr(a) == \A i \in 1 .. Len(a) : a[i].t = "num"
ArrSum ==
  /\ IsNumArr(arr)
  /\ \E force \in BOOLEAN :
       ArrCallWith("sum", 0, IF force THEN "forceBigInt" ELSE "", <<>>, sum(arr, force))
ArrProduct ==
  /\ IsNumArr(arr)
  /\ \E force \in BOOLEAN :
       ArrCallWith("product", 0, IF force THEN "forceBigInt" ELSE "", <<>>,
                   product(arr, force))

ArrGroupBy == \E fn \in EqFn : ArrCallWith("groupBy", 0, fn, <<>>, groupBy(arr, fn))

\* The caller's calls, by family: slicing, in-place editing, prefix and
\* suffix tests, queries.
NextArr == ArrWindows \/ ArrSplitAt \/ ArrRotateLeft \/ ArrRotateRight
NextEdit == ArrDedup \/ ArrDedupBy \/ ArrDedupByKey \/ ArrSpliceFilter
NextPrefix == ArrStartsWith \/ ArrEndsWith \/ ArrStripPrefix \/ ArrStripSuffix
NextQuery ==
  \/ ArrFirst \/ ArrLast \/ ArrMax \/ ArrMin \/ ArrSum \/ ArrProduct
  \/ ArrGroupBy

SpecArr == InitArr /\ [][NextArr]_vars
SpecEdit == InitArr /\ [][NextEdit]_vars
SpecPrefix == InitArr /\ [][NextPrefix]_vars
SpecQuery == InitArr /\ [][NextQuery]_vars

\* chunks(size) and rchunks(size), one step per loop iteration.  The engine
\* can hold an array of at most MaxChunks pieces: a loop that still runs
\* then pushes no more.
MaxChunks == MaxLen + 1
LoopStart(op, size, i) ==
  /\ loop.pc = "idle"
  /\ loop' = [pc |-> "run", op |-> op, size |-> size, i |-> i, chunks |-> <<>>]
  /\ acall' = NoArrCall
  /\ UNCHANGED <<heap, x, y, z, zsrc, last, pre, arr, cell>>
LoopIter(op, piece, i) ==
  /\ loop.pc = "run"
  /\ loop.op = op
  /\ Len(loop.chunks) < MaxChunks
  /\ loop' = [loop EXCEPT !.chunks = Append(@, piece), !.i = i]
  /\ UNCHANGED <<heap, x, y, z, zsrc, last, pre, arr, acall, cell>>
LoopReturn(op) ==
  /\ loop.pc = "run"
  /\ loop.op = op
  /\ loop' = NoLoop
  /\ acall' = [NoArrCall EXCEPT !.op = op, !.n = loop.size, !.this = arr,
                                !.parts = loop.chunks]
  /\ UNCHANGED <<heap, x, y, z, zsrc, last, pre, arr, cell>>

\* chunks: for (let i = 0; i < this.length; i += size) chunks.push(piece).
ChunksCall == \E size \in Sizes : LoopStart("chunks", size, 0)
ChunksIter ==
  /\ loop.i < Len(arr)
  /\ LoopIter("chunks", chunksPiece(arr, loop.i, loop.size), loop.i + loop.size)
ChunksReturn == ~(loop.i < Len(arr)) /\ LoopReturn("chunks")

\* rchunks: for (let i = this.length; i > 0; i -= size) chunks.push(piece).
RchunksCall == \E size \in Sizes : LoopStart("rchunks", size, Len(arr))
RchunksIter ==
  /\ loop.i > 0
  /\ LoopIter("rchunks", rchunksPiece(arr, loop.i, loop.size), loop.i - loop.size)
RchunksReturn == ~(loop.i > 0) /\ LoopReturn("rchunks")

NextLoop ==
  \/ ChunksCall \/ ChunksIter \/ ChunksReturn
  \/ RchunksCall \/ RchunksIter \/ RchunksReturn

SpecLoop == InitArr /\ [][NextLoop]_vars

\* One Option x under take() and replace(w), with the reference cell stepped
\* by the same calls.
InitCell ==
  /\ InitHeap
  /\ arr = <<>>
  /\ acall = NoArrCall
  /\ loop = NoLoop
  /\ IsOption(heap, Ref(x))
  /\ cell = [now |-> [some |-> heap[x].flag,
                      val |-> IF heap[x].flag THEN heap[x].value ELSE Undef],
             before |-> EmptyCell]

CellTake ==
  /\ CallOn("take", "x", Undef, "", Option_take(heap, x))
  /\ cell' = [now |-> EmptyCell, before |-> cell.now]
CellReplace ==
  \E w \in Plain :
    /\ CallOn("replace", "x", w, "", Option_replace(heap, x, w))
    /\ cell' = [now |-> [some |-> TRUE, val |-> w], before |-> cell.now]

NextCell == CellTake \/ CellReplace

SpecCell == InitCell /\ [][NextCell]_vars

\* ---------------------------------------------------------------- properties
\* What a caller can observe of an Option: isSome(), and unwrap() when Some.
View(h, a) == [some |-> h[a].flag, val |-> IF h[a].flag THEN h[a].value ELSE Undef]

\* The latest call was op on an Option / on a Result.
OnOpt(op) == last.op = op /\ pre[last.this].kind = "Option"
OnRes(op) == last.op = op /\ pre[last.this].kind = "Result"
Returned == last.k = "return"
Threw == last.k = "throw"
ReturnedOption == Returned /\ IsOption(heap, last.v)
ReturnedResult == Returned /\ IsResult(heap, last.v)

\* C1: a.take() on a = Some(v) returns an Option that is Some and holds v,
\* and leaves a None; both at the same time.
C1_TakeReturnsOldSome ==
  (OnOpt("take") /\ pre[last.this].flag) =>
    /\ ReturnedOption
    /\ heap[last.v.v].flag
    /\ heap[last.v.v].value = pre[last.this].value
    /\ ~heap[last.this].flag

\* C2: b.replace(w) returns an Option equal to b's state before the call and
\* leaves b Some(w), for b Some or None.
C2_ReplaceReturnsOld ==
  OnOpt("replace") =>
    /\ ReturnedOption
    /\ View(heap, last.v.v) = View(pre, last.this)
    /\ heap[last.this].flag
    /\ heap[last.this].value = last.arg

\* C3: x.map(f) leaves x as it was and returns a separate container holding
\* f(v) (None for x = None).
C3_MapLeavesReceiver ==
  OnOpt("map") =>
    /\ View(heap, last.this) = View(pre, last.this)
    /\ ReturnedOption
    /\ last.v.v # last.this
    /\ heap[last.v.v].flag = pre[last.this].flag
    /\ pre[last.this].flag =>
         heap[last.v.v].value = Apply(last.cb, pre[last.this].value)

\* C4: a Result is immutable: after r.map(f) or r.mapErr(g) the receiver has
\* the channel and payload it had before.
C4_ResultImmutable ==
  (OnRes("map") \/ OnRes("mapErr")) =>
    /\ heap[last.this].flag = pre[last.this].flag
    /\ heap[last.this].value = pre[last.this].value

\* C5: the channel of a Result is fixed at construction: no call of map,
\* mapErr, and, or, andThen, orElse, ok, err, unwrapOr, inspect, into, cloned,
\* flatten or transpose changes what isOk() answers for any live Result.
C5_ChannelFixed ==
  [][\A a \in Addr :
       (heap[a].kind = "Result" /\ heap'[a].kind = "Result") =>
         Result_isOk(heap', a) = Result_isOk(heap, a)]_vars

\* A Result whose payload an in-place map or mapErr has just replaced.
C5_Witness ==
  /\ last.op \in {"map", "mapErr"}
  /\ pre[last.this].kind = "Result"
  /\ heap[last.this].value # pre[last.this].value

Combinators == {"and", "or", "xor", "filter"}
OnReturned == last.reg = "z" /\ last.op \in {"take", "replace"}

C7_ResultExtraction ==
  /\ OnRes("unwrap") =>
       /\ last.v = pre[last.this].value
       /\ IF pre[last.this].flag THEN Returned ELSE Threw
  /\ OnRes("unwrapErr") =>
       /\ last.v = pre[last.this].value
       /\ IF pre[last.this].flag THEN Threw ELSE Returned

\* unwrap() on an Err with a plain payload has thrown.
C7_Witness ==
  /\ OnRes("unwrap") /\ ~pre[last.this].flag /\ Threw
  /\ pre[last.this].value \in Plain

\* C8: unwrap / expect return v on Some(v); on None unwrap throws an Error and
\* expect(m) an Error whose message is m; unwrapOr(d) / unwrapOrElse(f) return
\* v on Some(v) and d / f() on None and never throw; the Option is unchanged.
C8_OptionExtraction ==
  /\ OnOpt("unwrap") =>
       IF pre[last.this].flag
       THEN Returned /\ last.v = pre[last.this].value
       ELSE Threw /\ last.v.t = "Error"
  /\ OnOpt("expect") =>
       IF pre[last.this].flag
       THEN Returned /\ last.v = pre[last.this].value
       ELSE Threw /\ last.v = last.arg
  /\ (OnOpt("unwrapOr") \/ OnOpt("unwrapOrElse")) =>
       /\ Returned
       /\ last.v = IF pre[last.this].flag THEN pre[last.this].value ELSE last.arg
  /\ (OnOpt("unwrap") \/ OnOpt("expect") \/ OnOpt("unwrapOr") \/ OnOpt("unwrapOrElse")) =>
       heap[last.this] = pre[last.this]

\* expect(m) on a None has thrown.
C8_Witness == OnOpt("expect") /\ ~pre[last.this].flag /\ Threw

\* C9: Result.transpose: Ok(None) gives None; Ok(Some(v)) gives Some(r) with
\* r Ok and r.unwrap() = v; Err(e) gives Some(r) with r Err and
\* r.unwrapErr() = e; none of the three fails.
C9_ResultTranspose ==
  OnRes("transpose") =>
    LET this == pre[last.this]
        r == heap[heap[last.v.v].value.v]
    IN  /\ (this.flag /\ IsOption(pre, this.value) /\ ~pre[this.value.v].flag) =>
             ReturnedOption /\ ~heap[last.v.v].flag
        /\ (this.flag /\ IsOption(pre, this.value) /\ pre[this.value.v].flag) =>
             /\ ReturnedOption /\ heap[last.v.v].flag
             /\ IsResult(heap, heap[last.v.v].value)
             /\ r.flag /\ r.value = pre[this.value.v].value
        /\ ~this.flag =>
             /\ ReturnedOption /\ heap[last.v.v].flag
             /\ IsResult(heap, heap[last.v.v].value)
             /\ ~r.flag /\ r.value = this.value

\* C10: Option.transpose: Some(Ok(v)) gives Ok(Some(v)); Some(Err(e)) gives
\* Err(e); None gives Ok(None).
C10_OptionTranspose ==
  OnOpt("transpose") =>
    LET this == pre[last.this]
        inner == heap[heap[last.v.v].value.v]
    IN  /\ ~this.flag =>
             /\ ReturnedResult /\ heap[last.v.v].flag
             /\ IsOption(heap, heap[last.v.v].value) /\ ~inner.flag
        /\ (this.flag /\ IsResult(pre, this.value) /\ pre[this.value.v].flag) =>
             /\ ReturnedResult /\ heap[last.v.v].flag
             /\ IsOption(heap, heap[last.v.v].value)
             /\ inner.flag /\ inner.value = pre[this.value.v].value
        /\ (this.flag /\ IsResult(pre, this.value) /\ ~pre[this.value.v].flag) =>
             /\ ReturnedResult /\ ~heap[last.v.v].flag
             /\ heap[last.v.v].value = pre[this.value.v].value

\* Some(Ok(v)) has been transposed.
C10_Witness ==
  /\ OnOpt("transpose") /\ Returned
  /\ pre[last.this].flag /\ IsResult(pre, pre[last.this].value)
  /\ pre[pre[last.this].value.v].flag

\* What a caller can observe of a Result: isOk() and the payload.
ResView(h, a) == [ok |-> h[a].flag, val |-> h[a].value]
NoneView == [some |-> FALSE, val |-> Undef]
\* The latest call constructed no object.
NoAllocation == \A a \in Addr : pre[a].kind = "Free" => heap[a].kind = "Free"
\* The latest call returned an object it constructed.
ReturnedNew == Returned /\ IsRef(last.v) /\ pre[last.v.v].kind = "Free"

\* C11: Some(v).okOr(e).ok().unwrap() = v; None().okOr(e).unwrapErr() = e, and
\* likewise okOrElse(f) with f(); Ok(v).ok() is Some(v), Ok(v).err() is None,
\* Err(e).err() is Some(e), Err(e).ok() is None.
C11_ConversionLaws ==
  /\ (OnOpt("okOr") \/ OnOpt("okOrElse")) =>
       /\ ReturnedResult
       /\ IF pre[last.this].flag
          THEN LET o == Result_ok(heap, last.v.v)
                   u == Option_unwrap(o.h, o.v.v)
               IN  /\ o.k = "return" /\ IsOption(o.h, o.v)
                   /\ u.k = "return" /\ u.v = pre[last.this].value
          ELSE LET u == Result_unwrapErr(heap, last.v.v)
               IN  u.k = "return" /\ u.v = last.arg
  /\ OnRes("ok") =>
       /\ ReturnedOption
       /\ View(heap, last.v.v) =
            IF pre[last.this].flag
            THEN [some |-> TRUE, val |-> pre[last.this].value] ELSE NoneView
  /\ OnRes("err") =>
       /\ ReturnedOption
       /\ View(heap, last.v.v) =
            IF pre[last.this].flag
            THEN NoneView ELSE [some |-> TRUE, val |-> pre[last.this].value]

\* okOr(e) has been called on a None.
C11_Witness == OnOpt("okOr") /\ ~pre[last.this].flag /\ ReturnedResult

\* C12: x.and(y) equals y when x is Some and None otherwise; x.or(y) equals x
\* when x is Some and y otherwise; x.xor(y) equals the one that is Some when
\* exactly one is, and None otherwise.
C12_TruthTables ==
  LET xs == pre[last.this].flag
      ys == pre[last.arg.v].flag
      xv == View(pre, last.this)
      yv == View(pre, last.arg.v)
  IN  /\ OnOpt("and") =>
           ReturnedOption /\ View(heap, last.v.v) = IF xs THEN yv ELSE NoneView
      /\ OnOpt("or") =>
           ReturnedOption /\ View(heap, last.v.v) = IF xs THEN xv ELSE yv
      /\ OnOpt("xor") =>
           /\ ReturnedOption
           /\ View(heap, last.v.v) =
                IF xs /\ ~ys THEN xv ELSE IF ys /\ ~xs THEN yv ELSE NoneView

\* xor has been called with both operands Some.
C12_Witness == OnOpt("xor") /\ pre[last.this].flag /\ pre[last.arg.v].flag

\* What the caller's callback builds from v.
CallbackResult(f, v) ==
  IF f = "okInc" THEN [ok |-> TRUE, val |-> Apply("inc", v)]
  ELSE [ok |-> FALSE, val |-> Num(0)]

\* C13: r.and(res) equals res when r is Ok and r when r is Err; r.andThen(f)
\* calls f exactly when r is Ok and returns its result, otherwise returns r's
\* Err; r.or(fb) / r.orElse(g) return r's Ok unchanged when r is Ok (g not
\* called) and fb / g(e) when r is Err(e).
C13_ShortCircuit ==
  LET ok == pre[last.this].flag
      rv == ResView(pre, last.this)
  IN  /\ OnRes("and") =>
           /\ ReturnedResult
           /\ ResView(heap, last.v.v) = IF ok THEN ResView(pre, last.arg.v) ELSE rv
      /\ OnRes("andThen") =>
           /\ ReturnedResult
           /\ IF ok
              THEN ReturnedNew /\ ResView(heap, last.v.v) = CallbackResult(last.cb, rv.val)
              ELSE NoAllocation /\ ResView(heap, last.v.v) = rv
      /\ OnRes("or") =>
           /\ ReturnedResult
           /\ ResView(heap, last.v.v) = IF ok THEN rv ELSE ResView(pre, last.arg.v)
      /\ OnRes("orElse") =>
           /\ ReturnedResult
           /\ IF ok
              THEN NoAllocation /\ ResView(heap, last.v.v) = rv
              ELSE ReturnedNew /\ ResView(heap, last.v.v) = CallbackResult(last.cb, rv.val)

\* orElse(g) has been called on an Err and returned what g built.
C13_Witness == OnRes("orElse") /\ ~pre[last.this].flag /\ ReturnedNew

\* C14: x.cloned() returns a container distinct from x in the same state, so
\* take() / replace(w) on the clone leaves isSome() and unwrap() of x unchanged.
C14_ClonedIsDistinct ==
  /\ OnOpt("cloned") =>
       /\ ReturnedOption
       /\ last.v.v # last.this
       /\ View(heap, last.v.v) = View(pre, last.this)
  /\ (zsrc.op = "cloned" /\ IsOpt(x) /\ IsOpt(z) /\ OnReturned) =>
       View(heap, x) = View(pre, x)

\* C15: Result.cloned() returns a Result on the receiver's channel; its payload
\* is a copy of a plain payload, or the clone of a nested container.
C15_ResultCloned ==
  OnRes("cloned") =>
    /\ ReturnedResult
    /\ heap[last.v.v].flag = pre[last.this].flag
    /\ IF isRusttyClass(pre, pre[last.this].value)
       THEN /\ IsRef(heap[last.v.v].value)
            /\ heap[heap[last.v.v].value.v].kind = pre[pre[last.this].value.v].kind
            /\ heap[heap[last.v.v].value.v].flag = pre[pre[last.this].value.v].flag
       ELSE heap[last.v.v].value = pre[last.this].value

\* C16: Option.flatten() on Some(x) with x not an Option, and Result.flatten()
\* on Ok(x) with x not a Result, throw instead of returning a value.
C16_FlattenFailsFast ==
  /\ (OnOpt("flatten") /\ pre[last.this].flag /\ ~IsOption(pre, pre[last.this].value)) =>
       Threw
  /\ (OnRes("flatten") /\ pre[last.this].flag /\ ~IsResult(pre, pre[last.this].value)) =>
       Threw

\* C17: intoOk() on an Err and intoErr() on an Ok throw; on the matching
\* channel they return the payload.
C17_IntoChecksChannel ==
  /\ OnRes("intoOk") =>
       IF pre[last.this].flag
       THEN Returned /\ last.v = pre[last.this].value ELSE Threw
  /\ OnRes("intoErr") =>
       IF ~pre[last.this].flag
       THEN Returned /\ last.v = pre[last.this].value ELSE Threw

\* ---------------------------------------------------------------- array properties
OnArr(op) == acall.op = op
\* The receiver is the array it was before the call.
ArrUntouched == arr = acall.this

\* C18: a.windows(n) with 1 <= n <= a.length returns the a.length - n + 1
\* contiguous length-n sub-arrays in order (window i is a[i..i+n)); with
\* n > a.length it returns the empty array; with n <= 0 it fails; a is never
\* modified.
C18_Windows ==
  OnArr("windows") =>
    LET a == acall.this
        n == acall.n
    IN  /\ ArrUntouched
        /\ (1 <= n /\ n <= Len(a)) =>
             /\ acall.k = "return"
             /\ Len(acall.parts) = Len(a) - n + 1
             /\ \A i \in 1 .. Len(acall.parts) : acall.parts[i] = SubSeq(a, i, i + n - 1)
        /\ n > Len(a) => acall.k = "return" /\ acall.parts = <<>>
        /\ n <= 0 => acall.k = "throw"

\* C19: a.splitAt(n) with 0 <= n <= a.length returns the pair [p, r] where p
\* is the first n elements and r the remaining ones (p followed by r equals
\* a); for n < 0 or n > a.length it fails; in every case a is unchanged.
C19_SplitAt ==
  OnArr("splitAt") =>
    LET a == acall.this
        n == acall.n
    IN  /\ ArrUntouched
        /\ (0 <= n /\ n <= Len(a)) =>
             /\ acall.k = "return"
             /\ Len(acall.parts) = 2
             /\ acall.parts[1] = SubSeq(a, 1, n)
             /\ acall.parts[2] = SubSeq(a, n + 1, Len(a))
             /\ acall.parts[1] \o acall.parts[2] = a
        /\ (n < 0 \/ n > Len(a)) => acall.k = "throw"

C19_Witness ==
  /\ OnArr("splitAt")
  /\ acall.k = "return"
  /\ 0 < acall.n
  /\ acall.n < Len(acall.this)
  /\ acall.parts[1] # acall.parts[2]

\* C20: for an array a of length L and 0 <= mid <= L, element i of
\* a.rotateLeft(mid) is a[(i + mid) mod L], element i of a.rotateRight(mid)
\* is a[(i - mid) mod L], and a.rotateLeft(mid).rotateRight(mid) equals a;
\* for mid < 0 or mid > L both operations fail.
C20_Rotate ==
  (OnArr("rotateLeft") \/ OnArr("rotateRight")) =>
    LET a == acall.this
        mid == acall.n
        len == Len(a)
    IN  /\ (0 <= mid /\ mid <= len) =>
             /\ acall.k = "return"
             /\ Len(acall.out) = len
             /\ OnArr("rotateLeft") =>
                  /\ \A i \in 0 .. len - 1 : acall.out[i + 1] = a[((i + mid) % len) + 1]
                  /\ rotateRight(acall.out, mid).k = "return"
                  /\ rotateRight(acall.out, mid).out = a
             /\ OnArr("rotateRight") =>
                  \A i \in 0 .. len - 1 : acall.out[i + 1] = a[((i - mid) % len) + 1]
        /\ (mid < 0 \/ mid > len) => acall.k = "throw"

C20_Witness ==
  /\ OnArr("rotateRight")
  /\ acall.k = "return"
  /\ 0 < acall.n
  /\ acall.n < Len(acall.this)
  /\ acall.out # acall.this
  /\ rotateLeft(acall.this, acall.n).out # acall.out

\* The first element of every maximal run of consecutive elements that are
\* equal under fn, each element compared with the previous kept one.
RECURSIVE FirstOfRuns(_, _, _)
FirstOfRuns(a, fn, kept) ==
  IF a = <<>> THEN kept
  ELSE IF kept # <<>> /\ CallEq(fn, kept[Len(kept)], Head(a))
    THEN FirstOfRuns(Tail(a), fn, kept)
  ELSE FirstOfRuns(Tail(a), fn, Append(kept, Head(a)))

\* C21: a.dedup() leaves in a the original with each maximal run of
\* consecutive strictly-equal elements collapsed to one: order is kept, no
\* two adjacent elements are equal, and an element with no equal neighbour
\* is never removed (undefined elements included).
C21_Dedup ==
  OnArr("dedup") =>
    /\ acall.k = "return"
    /\ arr = FirstOfRuns(acall.this, "strictEq", <<>>)
    /\ \A i \in 1 .. Len(arr) - 1 : arr[i] # arr[i + 1]

\* C25: a.spliceFilter(p) removes from a every element that satisfies p and
\* returns the removed elements in their original order; a keeps the
\* elements that do not satisfy p, in their original order.
C25_SpliceFilter ==
  OnArr("spliceFilter") =>
    LET a == acall.this
        sat == [i \in 1 .. Len(a) |-> Test(acall.cb, a[i])]
    IN  /\ acall.k = "return"
        /\ acall.out = filter(a, sat)
        /\ arr = filter(a, [i \in 1 .. Len(a) |-> ~sat[i]])

\* C26: a.dedupBy(eq) and a.dedupByKey(k) leave in a, in order, the FIRST
\* element of every maximal run of consecutive elements that are equal under
\* eq (called as eq(previous kept, current)), resp. map to the same key.
C26_DedupKeepsFirst ==
  /\ OnArr("dedupBy") => arr = FirstOfRuns(acall.this, acall.cb, <<>>)
  /\ OnArr("dedupByKey") =>
       LET a == acall.this
           keys == [i \in 1 .. Len(a) |-> Key(acall.cb, a[i])]
       IN  arr = filter(a, [i \in 1 .. Len(a) |-> i = 1 \/ keys[i] # keys[i - 1]])

C24_MaxMinPure == (OnArr("max") \/ OnArr("min")) => ArrUntouched

\* C27: startsWith(...xs) is true exactly when xs is no longer than a and
\* the first xs.length elements of a equal xs; endsWith(...xs) likewise with
\* the last xs.length elements; stripPrefix/stripSuffix return Some(a
\* without that prefix/suffix) exactly in the true case and None otherwise.
IsPrefix(xs, a) == Len(xs) <= Len(a) /\ SubSeq(a, 1, Len(xs)) = xs
IsSuffix(xs, a) == Len(xs) <= Len(a) /\ SubSeq(a, Len(a) - Len(xs) + 1, Len(a)) = xs
C27_PrefixSuffix ==
  LET a == acall.this
      xs == acall.xs
  IN  /\ OnArr("startsWith") => acall.val = Bool(IsPrefix(xs, a))
      /\ OnArr("endsWith") => acall.val = Bool(IsSuffix(xs, a))
      /\ OnArr("stripPrefix") =>
           IF IsPrefix(xs, a)
             THEN acall.opt = "Some" /\ acall.out = SubSeq(a, Len(xs) + 1, Len(a))
           ELSE acall.opt = "None"
      /\ OnArr("stripSuffix") =>
           IF IsSuffix(xs, a)
             THEN acall.opt = "Some" /\ acall.out = SubSeq(a, 1, Len(a) - Len(xs))
           ELSE acall.opt = "None"

\* C30: a.groupBy(pred) partitions a into consecutive groups: the groups
\* concatenated in order give a, every group is non-empty, a[i] (i >= 1) is
\* in the group of a[i-1] exactly when pred(a[i-1], a[i]), the empty array
\* yields no groups, and a is unchanged.
C30_GroupBy ==
  OnArr("groupBy") =>
    LET a == acall.this
        g == acall.parts
        starts == {Len(flat(SubSeq(g, 1, j - 1))) + 1 : j \in 1 .. Len(g)}
    IN  /\ acall.k = "return"
        /\ ArrUntouched
        /\ flat(g) = a
        /\ \A j \in 1 .. Len(g) : g[j] # <<>>
        /\ \A i \in 2 .. Len(a) : (i \notin starts) <=> CallEq(acall.cb, a[i - 1], a[i])
        /\ a = <<>> => g = <<>>

C30_Witness ==
  /\ OnArr("groupBy")
  /\ acall.cb = "less"
  /\ Len(acall.parts) >= 2
  /\ \E j \in 1 .. Len(acall.parts) : Len(acall.parts[j]) >= 2

\* C22: for size n >= 1, a.chunks(n) returns pieces from the front whose
\* concatenation is a, all of length n but the last, which has 1..n
\* elements; a.rchunks(n) returns pieces from the back (the first piece is
\* the last n elements) whose concatenation in reverse piece order is a, all
\* of length n but the last; the empty array yields no pieces; a is unchanged.
C22_Chunks ==
  ((OnArr("chunks") \/ OnArr("rchunks")) /\ acall.n >= 1) =>
    LET a == acall.this
        n == acall.n
        g == acall.parts
    IN  /\ acall.k = "return"
        /\ ArrUntouched
        /\ a = <<>> => g = <<>>
        /\ \A j \in 1 .. Len(g) - 1 : Len(g[j]) = n
        /\ g # <<>> => 1 <= Len(g[Len(g)]) /\ Len(g[Len(g)]) <= n
        /\ OnArr("chunks") => flat(g) = a
        /\ OnArr("rchunks") =>
             /\ flat(reverse(g)) = a
             /\ g # <<>> => g[1] = SubSeq(a, Max(Len(a) - n, 0) + 1, Len(a))

C22_Witness ==
  /\ OnArr("rchunks")
  /\ acall.n >= 2
  /\ Len(acall.parts) >= 2
  /\ Len(acall.parts[Len(acall.parts)]) < acall.n

\* C29: for every array and every integer size, chunks and rchunks
\* terminate: a call with a non-positive size fails at once, and a loop
\* never runs for more iterations than the array has elements.
C29_ChunksTerminate ==
  /\ ((OnArr("chunks") \/ OnArr("rchunks")) /\ acall.n <= 0) => acall.k = "throw"
  /\ loop.pc = "run" => Len(loop.chunks) <= Len(arr)

\* C28: after any sequence of take() and replace(v) calls on one Option, it
\* matches the reference cell stepped by the same calls: isSome() is true
\* exactly when the cell is populated, unwrap() returns the stored value
\* when populated and fails when not, and each call returns an Option equal
\* to the cell's state just before that call.
C28_MatchesCell ==
  /\ Option_isSome(heap, x) = cell.now.some
  /\ IF cell.now.some
       THEN Option_unwrap(heap, x) = Return(heap, cell.now.val)
     ELSE Option_unwrap(heap, x).k = "throw"
  /\ last.op \in {"take", "replace"} =>
       /\ ReturnedOption
       /\ View(heap, last.v.v) = cell.before

====
